---- MODULE Spec2Model ----
(***************************************************************************)
(* Model of src/function.py: a serverless function that fetches a PEM key  *)
(* from a secret store, mints a GitHub App installation token and          *)
(* dispatches a GitHub Actions workflow.                                   *)
(*                                                                         *)
(* Python values are tagged records [ty, v].  Texts (secret strings, HTTP  *)
(* bodies) are sequences of lexemes; RawText renders a text to the string  *)
(* the program sees and JsonLoads parses it as json.loads does.            *)
(***************************************************************************)
EXTENDS Integers, Sequences, FiniteSets, TLC

(***************************************************************************)
(* Python values                                                           *)
(***************************************************************************)
PyStr(s) == [ty |-> "str", v |-> s]
PyInt(lit) == [ty |-> "int", v |-> lit]
PyNone == [ty |-> "NoneType", v |-> "None"]
PyBool(b) == [ty |-> "bool", v |-> IF b THEN "True" ELSE "False"]
PyList(seq) == [ty |-> "list", v |-> seq]
PyDict(f) == [ty |-> "dict", v |-> f]
EmptyDict == PyDict(<<>>)

\* decimal rendering of a natural number, as str(int) / f"{int}"
Digit(d) == CASE d = 0 -> "0" [] d = 1 -> "1" [] d = 2 -> "2" [] d = 3 -> "3"
              [] d = 4 -> "4" [] d = 5 -> "5" [] d = 6 -> "6" [] d = 7 -> "7"
              [] d = 8 -> "8" [] d = 9 -> "9"

RECURSIVE IntStr(_)
IntStr(n) == IF n < 10 THEN Digit(n) ELSE IntStr(n \div 10) \o Digit(n % 10)

(***************************************************************************)
(* Texts and JSON                                                          *)
(***************************************************************************)
LBrace == [k |-> "punct", s |-> "{"]
RBrace == [k |-> "punct", s |-> "}"]
LBrack == [k |-> "punct", s |-> "["]
RBrack == [k |-> "punct", s |-> "]"]
Colon == [k |-> "punct", s |-> ":"]
Comma == [k |-> "punct", s |-> ","]
StrLex(s) == [k |-> "str", s |-> s]
NumLex(lit) == [k |-> "num", s |-> lit]
NullLex == [k |-> "lit", s |-> "null"]
RawLex(s) == [k |-> "raw", s |-> s]

\* the characters a lexeme stands for
Render(t) == IF t.k = "str" THEN "\"" \o t.s \o "\"" ELSE t.s

\* the string a text stands for
RECURSIVE RawText(_)
RawText(toks) == IF toks = <<>> THEN "" ELSE Render(Head(toks)) \o RawText(Tail(toks))

JsonOk(val, next, pos) == [ok |-> TRUE, val |-> val, next |-> next, pos |-> pos]
JsonFail(msg, pos) == [ok |-> FALSE, msg |-> msg, pos |-> pos]

\* str(json.JSONDecodeError) for a one-line document
JSONDecodeErrorStr(msg, pos) ==
    msg \o ": line 1 column " \o IntStr(pos + 1) \o " (char " \o IntStr(pos) \o ")"

RECURSIVE ScanOnce(_, _, _)
RECURSIVE ObjMembers(_, _, _, _)
RECURSIVE ArrItems(_, _, _, _)

\* json.decoder.JSONObject, entered after the opening brace
JSONObject(toks, i, pos) ==
    IF i <= Len(toks) /\ toks[i] = RBrace THEN JsonOk(EmptyDict, i + 1, pos + 1)
    ELSE IF i > Len(toks) \/ toks[i].k # "str"
         THEN JsonFail("Expecting property name enclosed in double quotes", pos)
         ELSE ObjMembers(toks, i, pos, <<>>)

\* the member loop of JSONObject; toks[i] is a key
ObjMembers(toks, i, pos, acc) ==
    LET key == toks[i].s
        p1 == pos + Len(Render(toks[i]))
    IN  IF i + 1 > Len(toks) \/ toks[i + 1] # Colon
        THEN JsonFail("Expecting ':' delimiter", p1)
        ELSE LET r == ScanOnce(toks, i + 2, p1 + 1)
             IN  IF ~r.ok THEN r
                 ELSE LET acc2 == (key :> r.val) @@ acc
                      IN  IF r.next > Len(toks) THEN JsonFail("Expecting ',' delimiter", r.pos)
                          ELSE IF toks[r.next] = RBrace
                               THEN JsonOk(PyDict(acc2), r.next + 1, r.pos + 1)
                          ELSE IF toks[r.next] # Comma
                               THEN JsonFail("Expecting ',' delimiter", r.pos)
                          ELSE IF r.next + 1 > Len(toks) \/ toks[r.next + 1].k # "str"
                               THEN JsonFail("Expecting property name enclosed in double quotes",
                                             r.pos + 1)
                          ELSE ObjMembers(toks, r.next + 1, r.pos + 1, acc2)

\* json.decoder.JSONArray, entered after the opening bracket
JSONArray(toks, i, pos) ==
    IF i <= Len(toks) /\ toks[i] = RBrack THEN JsonOk(PyList(<<>>), i + 1, pos + 1)
    ELSE ArrItems(toks, i, pos, <<>>)

\* the item loop of JSONArray
ArrItems(toks, i, pos, acc) ==
    LET r == ScanOnce(toks, i, pos)
    IN  IF ~r.ok THEN r
        ELSE LET acc2 == Append(acc, r.val)
             IN  IF r.next > Len(toks) THEN JsonFail("Expecting ',' delimiter", r.pos)
                 ELSE IF toks[r.next] = RBrack
                      THEN JsonOk(PyList(acc2), r.next + 1, r.pos + 1)
                 ELSE IF toks[r.next] # Comma
                      THEN JsonFail("Expecting ',' delimiter", r.pos)
                 ELSE ArrItems(toks, r.next + 1, r.pos + 1, acc2)

\* json.scanner.scan_once
ScanOnce(toks, i, pos) ==
    IF i > Len(toks) THEN JsonFail("Expecting value", pos)
    ELSE LET t == toks[i]
         IN  CASE t.k = "str" -> JsonOk(PyStr(t.s), i + 1, pos + Len(Render(t)))
               [] t.k = "num" -> JsonOk(PyInt(t.s), i + 1, pos + Len(Render(t)))
               [] t = NullLex -> JsonOk(PyNone, i + 1, pos + 4)
               [] t = LBrace -> JSONObject(toks, i + 1, pos + 1)
               [] t = LBrack -> JSONArray(toks, i + 1, pos + 1)
               [] OTHER -> JsonFail("Expecting value", pos)

\* json.loads: [ok |-> TRUE, val] or [ok |-> FALSE, err] with err = str(JSONDecodeError)
JsonLoads(toks) ==
    LET r == ScanOnce(toks, 1, 0)
    IN  IF ~r.ok THEN [ok |-> FALSE, err |-> JSONDecodeErrorStr(r.msg, r.pos)]
        ELSE IF r.next <= Len(toks)
             THEN [ok |-> FALSE, err |-> JSONDecodeErrorStr("Extra data", r.pos)]
             ELSE [ok |-> TRUE, val |-> r.val]

(***************************************************************************)
(* Python built-ins used by the program                                    *)
(***************************************************************************)
\* bool(value), as tested by `if workflow_inputs:`
Truthy(val) ==
    CASE val.ty = "NoneType" -> FALSE
      [] val.ty = "dict" -> DOMAIN val.v # {}
      [] val.ty = "list" -> val.v # <<>>
      [] val.ty = "str" -> val.v # ""
      [] val.ty = "int" -> val.v # "0"
      [] val.ty = "bool" -> val.v = "True"

\* f"{value}" for the scalar values that reach an f-string
PyFormat(val) ==
    CASE val.ty \in {"str", "int", "NoneType", "bool"} -> val.v

Exc(type, msg) == [type |-> type, msg |-> msg]

\* value.get(key, default): [ok |-> TRUE, val] or [ok |-> FALSE, exc]
DictGet(val, key, default) ==
    IF val.ty = "dict"
    THEN [ok |-> TRUE, val |-> IF key \in DOMAIN val.v THEN val.v[key] ELSE default]
    ELSE [ok |-> FALSE,
          exc |-> Exc("AttributeError", "'" \o val.ty \o "' object has no attribute 'get'")]

\* value[key] for a string key
GetItem(val, key) ==
    CASE val.ty = "dict" ->
           IF key \in DOMAIN val.v THEN [ok |-> TRUE, val |-> val.v[key]]
           ELSE [ok |-> FALSE, exc |-> Exc("KeyError", "'" \o key \o "'")]
      [] val.ty = "list" ->
           [ok |-> FALSE,
            exc |-> Exc("TypeError", "list indices must be integers or slices, not str")]
      [] val.ty = "str" ->
           [ok |-> FALSE, exc |-> Exc("TypeError", "string indices must be integers, not 'str'")]
      [] OTHER ->
           [ok |-> FALSE,
            exc |-> Exc("TypeError", "'" \o val.ty \o "' object is not subscriptable")]

\* chr() on the code points of the sample keys
Chr(cp) == CASE cp = 32 -> " " [] cp = 45 -> "-" [] cp = 65 -> "A" [] cp = 66 -> "B"
             [] cp = 69 -> "E" [] cp = 71 -> "G" [] cp = 73 -> "I" [] cp = 78 -> "N"
             [] cp = 88 -> "X"

HexDigit(d) == IF d < 10 THEN Digit(d)
               ELSE CASE d = 10 -> "a" [] d = 11 -> "b" [] d = 12 -> "c"
                      [] d = 13 -> "d" [] d = 14 -> "e" [] d = 15 -> "f"

\* str(UnicodeDecodeError) for the n undecodable bytes starting at pos
UnicodeDecodeErrorStr(byte, pos, n, why) ==
    IF n = 1
    THEN "'utf-8' codec can't decode byte 0x" \o HexDigit(byte \div 16) \o HexDigit(byte % 16)
            \o " in position " \o IntStr(pos) \o ": " \o why
    ELSE "'utf-8' codec can't decode bytes in position " \o IntStr(pos) \o "-"
            \o IntStr(pos + n - 1) \o ": " \o why

\* UTF-8: the length of the sequence a lead byte opens, and the range of its second byte
Utf8Length(b) == IF b < 224 THEN 2 ELSE IF b < 240 THEN 3 ELSE 4
Utf8SecondLo(b) == CASE b = 224 -> 160 [] b = 240 -> 144 [] OTHER -> 128
Utf8SecondHi(b) == CASE b = 237 -> 159 [] b = 244 -> 143 [] OTHER -> 191
Utf8LeadBits(b) == IF b < 224 THEN b - 192 ELSE IF b < 240 THEN b - 224 ELSE b - 240

\* the first k in 1..n-1 whose byte bytes[i+k] is missing (-k) or no continuation (k); 0 if none
RECURSIVE Utf8BadTail(_, _, _, _)
Utf8BadTail(bytes, i, k, n) ==
    IF k >= n THEN 0
    ELSE IF i + k > Len(bytes) THEN 0 - k
    ELSE IF \/ bytes[i + k] < (IF k = 1 THEN Utf8SecondLo(bytes[i]) ELSE 128)
            \/ bytes[i + k] > (IF k = 1 THEN Utf8SecondHi(bytes[i]) ELSE 191)
         THEN k
    ELSE Utf8BadTail(bytes, i, k + 1, n)

RECURSIVE Utf8CodePoint(_, _, _, _, _)
Utf8CodePoint(bytes, i, k, n, cp) ==
    IF k >= n THEN cp ELSE Utf8CodePoint(bytes, i, k + 1, n, cp * 64 + (bytes[i + k] - 128))

\* bytes.decode("utf-8"), strict
RECURSIVE Utf8Decode(_, _, _)
Utf8Decode(bytes, i, acc) ==
    IF i > Len(bytes) THEN [ok |-> TRUE, val |-> acc]
    ELSE LET b == bytes[i]
             n == Utf8Length(b)
             bad == Utf8BadTail(bytes, i, 1, n)
             fail(k, why) == [ok |-> FALSE,
                              exc |-> Exc("UnicodeDecodeError",
                                          UnicodeDecodeErrorStr(b, i - 1, k, why))]
         IN  IF b < 128 THEN Utf8Decode(bytes, i + 1, acc \o Chr(b))
             ELSE IF b < 194 \/ b > 244 THEN fail(1, "invalid start byte")
             ELSE IF bad < 0 THEN fail(0 - bad, "unexpected end of data")
             ELSE IF bad > 0 THEN fail(bad, "invalid continuation byte")
             ELSE Utf8Decode(bytes, i + n,
                             acc \o Chr(Utf8CodePoint(bytes, i, 1, n, Utf8LeadBits(b))))

(***************************************************************************)
(* Libraries: requests, PyJWT                                              *)
(***************************************************************************)
NoResponse == [status_code |-> -1, reason |-> "", body |-> <<>>, url |-> ""]

\* requests.Response.ok, which is also Response.__bool__
ResponseOk(resp) == ~(400 <= resp.status_code /\ resp.status_code < 600)

\* bool(e.response): None is false, a Response is as true as its ok
ResponseTruthy(resp) == resp # NoResponse /\ ResponseOk(resp)

\* requests.Response.raise_for_status: the HTTPError raised, or NoExc
NoExc == [type |-> "", msg |-> ""]
RaiseForStatus(resp) ==
    IF 400 <= resp.status_code /\ resp.status_code < 500
    THEN [type |-> "HTTPError",
          msg |-> IntStr(resp.status_code) \o " Client Error: " \o resp.reason
                    \o " for url: " \o resp.url,
          response |-> resp]
    ELSE IF 500 <= resp.status_code /\ resp.status_code < 600
    THEN [type |-> "HTTPError",
          msg |-> IntStr(resp.status_code) \o " Server Error: " \o resp.reason
                    \o " for url: " \o resp.url,
          response |-> resp]
    ELSE NoExc

\* requests.Response.text
ResponseText(resp) == RawText(resp.body)

\* requests.Response.json
ResponseJson(resp) ==
    LET r == JsonLoads(resp.body)
    IN  IF r.ok THEN r ELSE [ok |-> FALSE, exc |-> Exc("JSONDecodeError", r.err)]

\* the PEM texts that hold an RSA private key
PemA == "-----BEGIN A-----"
IsPrivateKeyPem(s) == s = PemA

\* jwt.encode(payload, key, algorithm): the signed token, or the exception
JwtEncode(payload, key, algorithm) ==
    IF key.ty # "str"
    THEN [ok |-> FALSE, exc |-> Exc("TypeError", "Expecting a PEM-formatted key.")]
    ELSE IF ~IsPrivateKeyPem(key.v)
    THEN [ok |-> FALSE,
          exc |-> Exc("InvalidKeyError", "Could not parse the provided public key.")]
    ELSE [ok |-> TRUE, val |-> [alg |-> algorithm, payload |-> payload, key |-> key.v]]

(***************************************************************************)
(* Bounds and inputs                                                       *)
(***************************************************************************)
MaxInvocations == 2

Restrict(f, S) == [k \in S |-> f[k]]

RequiredFields == <<"app_id", "installation_id", "secret_name", "repo_owner",
                    "repo_name", "workflow_file", "ref">>
RequiredSet == {RequiredFields[i] : i \in 1..Len(RequiredFields)}

FullEvent(app, inputs) ==
    [app_id |-> PyStr(app), installation_id |-> PyStr("42"),
     secret_name |-> PyStr("gh-app-key"), repo_owner |-> PyStr("octo"),
     repo_name |-> PyStr("repo"), workflow_file |-> PyStr("deploy.yml"),
     ref |-> PyStr("main"), workflow_inputs |-> inputs,
     region_name |-> PyStr("eu-west-1")]

AppIds == {"12345", "777"}
InputsValues == {PyNone, EmptyDict, PyDict([env |-> PyStr("prod")])}

Events ==
    {FullEvent(a, w) : a \in AppIds, w \in InputsValues}
    \cup {Restrict(FullEvent(a, PyNone), RequiredSet \cup O) :
            a \in AppIds, O \in {{}, {"region_name"}}}
    \cup {Restrict(FullEvent("12345", PyNone), RequiredSet \ {f}) : f \in RequiredSet}

Clock == {30, 1700000000}

BytesOfPemA == <<45, 45, 45, 45, 45, 66, 69, 71, 73, 78, 32, 65, 45, 45, 45, 45, 45>>

SecretStrings ==
    { <<RawLex(PemA)>>,
      <<RawLex("X")>>,
      <<>>,
      <<LBrace, StrLex("private_key"), Colon, StrLex(PemA), RBrace>>,
      <<LBrace, StrLex("private_key"), Colon, StrLex("X"), RBrace>>,
      <<LBrace, StrLex("private_key"), Colon, NullLex, RBrace>>,
      <<LBrace, StrLex("key"), Colon, StrLex(PemA), RBrace>>,
      <<NumLex("123")>>,
      <<LBrack, RBrack>>,
      <<StrLex(PemA)>>,
      <<NullLex>> }

SecretBinaries == { BytesOfPemA, <<88>>, <<45, 255>>, <<195>>, <<226, 40>> }

SecretOutcomes ==
    { [kind |-> "error",
       exc |-> Exc("ClientError", "An error occurred (ResourceNotFoundException) when calling the GetSecretValue operation") ] }
    \cup {[kind |-> "ok", response |-> [SecretString |-> t]] : t \in SecretStrings}
    \cup {[kind |-> "ok", response |-> [SecretBinary |-> b]] : b \in SecretBinaries}

HttpReply(status, reason, body) ==
    [kind |-> "response", status_code |-> status, reason |-> reason, body |-> body]
NetworkError == [kind |-> "error", exc |-> Exc("ConnectionError", "Connection aborted.")]

TokenOutcomes ==
    { NetworkError,
      HttpReply(201, "Created", <<LBrace, StrLex("token"), Colon, StrLex("ghs_A"), RBrace>>),
      HttpReply(200, "OK", <<LBrace, StrLex("token"), Colon, StrLex("ghs_B"), Comma,
                             StrLex("expires_at"), Colon, StrLex("2026"), RBrace>>),
      HttpReply(201, "Created", <<LBrace, StrLex("expires_at"), Colon, StrLex("2026"), RBrace>>),
      HttpReply(201, "Created", <<>>),
      HttpReply(201, "Created", <<LBrack, RBrack>>),
      HttpReply(304, "Not Modified", <<>>),
      HttpReply(401, "Unauthorized",
                <<LBrace, StrLex("message"), Colon, StrLex("Bad credentials"), RBrace>>),
      HttpReply(404, "Not Found", <<LBrace, StrLex("message"), Colon, StrLex("Not Found"), RBrace>>),
      HttpReply(503, "Service Unavailable", <<RawLex("<html>")>>) }

DispatchOutcomes ==
    { NetworkError,
      HttpReply(204, "No Content", <<>>),
      HttpReply(204, "No Content", <<LBrace, RBrace>>),
      HttpReply(200, "OK", <<>>),
      HttpReply(200, "OK", <<LBrace, RBrace>>),
      HttpReply(404, "Not Found", <<LBrace, StrLex("message"), Colon, StrLex("Not Found"), RBrace>>),
      HttpReply(422, "Unprocessable Entity",
                <<LBrace, StrLex("message"), Colon, StrLex("Validation Failed"), Comma,
                  StrLex("errors"), Colon, LBrack, LBrace, StrLex("code"), Colon,
                  StrLex("invalid"), RBrace, RBrack, RBrace>>),
      HttpReply(422, "Unprocessable Entity",
                <<LBrace, StrLex("errors"), Colon, LBrack, StrLex("bad ref"), RBrack, RBrace>>),
      HttpReply(403, "Forbidden", <<LBrace, StrLex("message"), Colon, NullLex, RBrace>>),
      HttpReply(500, "Internal Server Error", <<RawLex("Server Error")>>),
      HttpReply(502, "Bad Gateway", <<RawLex("<html>")>>),
      HttpReply(400, "Bad Request", <<LBrack, RBrack>>),
      HttpReply(400, "Bad Request", <<StrLex("bad")>>) }

(***************************************************************************)
(* State                                                                   *)
(***************************************************************************)
VARIABLES
    pc,                \* "idle", "START", "secret_fetched", "token_minted", "returned"
    event,             \* the event lambda_handler was invoked with
    args,              \* the arguments bound by trigger_github_workflow
    secret_response,   \* what get_secret_value returned
    private_key_pem,   \* the local of that name, once bound
    now,               \* the clock reading of get_github_app_token
    jwt_payload,       \* the claims set handed to jwt.encode
    token_request,     \* the POST to the access-token endpoint, once sent
    token_response,    \* its response
    access_token,      \* the local of that name, once bound
    dispatch_request,  \* the POST to the dispatch endpoint, once sent
    dispatch_response, \* its response
    calls,             \* the external calls of this invocation, in order
    caught,            \* the exception an except clause caught
    result,            \* what the invocation handed to the invoker
    outcome,           \* the return site reached
    history,           \* the calls of the earlier invocations
    same_inputs        \* this invocation's event equals the previous one's

vars == <<pc, event, args, secret_response, private_key_pem, now, jwt_payload,
          token_request, token_response, access_token, dispatch_request,
          dispatch_response, calls, caught, result, outcome, history, same_inputs>>

Unbound == [ty |-> "unbound", v |-> ""]
NoArgs == <<>>
NoSecretResponse == <<>>
NoPayload == <<>>
NoRequest == [url |-> ""]
NoResult == [kind |-> "none"]

Returned(value) == [kind |-> "return", value |-> value]
Raised(exc) == [kind |-> "raise", exc |-> exc]

(***************************************************************************)
(* The program                                                             *)
(***************************************************************************)
\* lines 75-84: the PEM held by the secret store's response
UnwrapSecret(resp) ==
    IF "SecretString" \in DOMAIN resp
    THEN LET raw == PyStr(RawText(resp.SecretString))
             secret_json == JsonLoads(resp.SecretString)
         IN  IF ~secret_json.ok THEN [ok |-> TRUE, val |-> raw]
             ELSE DictGet(secret_json.val, "private_key", raw)
    ELSE LET d == Utf8Decode(resp.SecretBinary, 1, "")
         IN  IF d.ok THEN [ok |-> TRUE, val |-> PyStr(d.val)] ELSE d

\* the claims set without the clock-drift allowance
JwtPayload_NoDrift(app_id, t) == [iat |-> t, exp |-> t + (10 * 60), iss |-> app_id]

\* lines 16-21: the claims set
JwtPayload(app_id, t) == [iat |-> t - 60, exp |-> t + (10 * 60), iss |-> app_id]

AccessTokensUrl(installation_id) ==
    "https://api.github.com/app/installations/" \o PyFormat(installation_id)
        \o "/access_tokens"

\* lines 26-35: the request of the token exchange
TokenRequest(installation_id, jwt_token) ==
    [url |-> AccessTokensUrl(installation_id),
     Authorization |-> [scheme |-> "Bearer", credentials |-> jwt_token],
     Accept |-> "application/vnd.github+json",
     ApiVersion |-> "2022-11-28"]

\* lines 9-38: get_github_app_token with the clock reading t and the endpoint's answer o
GetGithubAppToken(app_id, installation_id, pem, t, o) ==
    LET payload == JwtPayload(app_id, t)
        jwt_token == JwtEncode(payload, pem, "RS256")
        request == TokenRequest(installation_id, jwt_token.val)
        response == [status_code |-> o.status_code, reason |-> o.reason,
                     body |-> o.body, url |-> AccessTokensUrl(installation_id)]
        none == [payload |-> payload, request |-> NoRequest, response |-> NoResponse]
    IN  IF ~jwt_token.ok THEN none @@ [ok |-> FALSE, exc |-> jwt_token.exc]
        ELSE LET sent == [payload |-> payload, request |-> request, response |-> NoResponse]
             IN  IF o.kind = "error" THEN sent @@ [ok |-> FALSE, exc |-> o.exc]
                 ELSE LET got == [payload |-> payload, request |-> request,
                                  response |-> response]
                          status == RaiseForStatus(response)
                          body == ResponseJson(response)
                      IN  IF status # NoExc THEN got @@ [ok |-> FALSE, exc |-> status]
                          ELSE IF ~body.ok THEN got @@ [ok |-> FALSE, exc |-> body.exc]
                          ELSE got @@ GetItem(body.val, "token")

DispatchUrl(a) ==
    "https://api.github.com/repos/" \o PyFormat(a.repo_owner) \o "/" \o PyFormat(a.repo_name)
        \o "/actions/workflows/" \o PyFormat(a.workflow_file) \o "/dispatches"

\* the body with `if workflow_inputs is not None` in place of the truth test
DispatchPayload_IsNotNone(ref, workflow_inputs) ==
    IF workflow_inputs # PyNone
    THEN PyDict([ref |-> ref, inputs |-> workflow_inputs])
    ELSE PyDict([ref |-> ref])

\* lines 96-98: the body of the dispatch POST
DispatchPayload(ref, workflow_inputs) ==
    IF Truthy(workflow_inputs)
    THEN PyDict([ref |-> ref, inputs |-> workflow_inputs])
    ELSE PyDict([ref |-> ref])

\* lines 90-102: the request of the dispatch
DispatchRequest(a, token) ==
    [url |-> DispatchUrl(a),
     Authorization |-> "Bearer " \o PyFormat(token),
     Accept |-> "application/vnd.github+json",
     ApiVersion |-> "2022-11-28",
     json |-> DispatchPayload(a.ref, a.workflow_inputs)]

\* the success test with `response.ok` in place of the comparison with 204
IsDispatched_AnyOk(response) == ResponseOk(response)

\* line 105: the success test
IsDispatched(response) == response.status_code = 204

\* the error detail parsed whether or not the response has text
ErrorDetail_AlwaysParsed(response) == ResponseJson(response)

\* line 112: the parsed body of a failed dispatch, or the exception raised
ErrorDetail(response) ==
    IF ResponseText(response) # "" THEN ResponseJson(response)
    ELSE [ok |-> TRUE, val |-> EmptyDict]

\* lines 105-118: the result for a dispatch response, or the exception raised on the way
DispatchResult(a, response) ==
    IF IsDispatched(response)
    THEN [ok |-> TRUE, outcome |-> "SUCCESS",
          val |-> [success |-> TRUE, status_code |-> 204,
                   message |-> PyStr("Workflow '" \o PyFormat(a.workflow_file)
                                       \o "' triggered successfully on ref '"
                                       \o PyFormat(a.ref) \o "'")]]
    ELSE LET error_detail == ErrorDetail(response)
         IN  IF ~error_detail.ok THEN error_detail
             ELSE LET message == DictGet(error_detail.val, "message",
                                         PyStr(ResponseText(response)))
                      errors == DictGet(error_detail.val, "errors", PyList(<<>>))
                  IN  IF ~message.ok THEN message
                      ELSE [ok |-> TRUE, outcome |-> "API_FAILURE",
                            val |-> [success |-> FALSE,
                                     status_code |-> response.status_code,
                                     message |-> message.val,
                                     errors |-> errors.val]]

\* the except clauses with the first one catching every RequestException
ExceptHandler_AnyRequestException(e) ==
    IF e.type \in {"HTTPError", "ConnectionError", "JSONDecodeError"}
    THEN [outcome |-> "TRANSPORT_FAILURE",
          val |-> [success |-> FALSE,
                   status_code |-> IF e.type = "HTTPError" /\ ResponseTruthy(e.response)
                                   THEN e.response.status_code ELSE 500,
                   message |-> PyStr(e.msg)]]
    ELSE [outcome |-> "UNEXPECTED_FAILURE",
          val |-> [success |-> FALSE, status_code |-> 500,
                   message |-> PyStr("Unexpected error: " \o e.msg)]]

\* lines 120-131: the except clauses
ExceptHandler(e) ==
    IF e.type = "HTTPError"
    THEN [outcome |-> "TRANSPORT_FAILURE",
          val |-> [success |-> FALSE,
                   status_code |-> IF ResponseTruthy(e.response)
                                   THEN e.response.status_code ELSE 500,
                   message |-> PyStr(e.msg)]]
    ELSE [outcome |-> "UNEXPECTED_FAILURE",
          val |-> [success |-> FALSE, status_code |-> 500,
                   message |-> PyStr("Unexpected error: " \o e.msg)]]

\* the first required field the event lacks, in the order lambda_handler reads them
RECURSIVE FirstMissing(_, _)
FirstMissing(ev, i) ==
    IF i > Len(RequiredFields) THEN ""
    ELSE IF RequiredFields[i] \notin DOMAIN ev THEN RequiredFields[i]
    ELSE FirstMissing(ev, i + 1)

\* lines 137-147: the arguments lambda_handler passes
HandlerArgs(ev) ==
    Restrict(ev, RequiredSet)
    @@ [workflow_inputs |-> IF "workflow_inputs" \in DOMAIN ev
                            THEN ev.workflow_inputs ELSE PyNone,
        region_name |-> IF "region_name" \in DOMAIN ev
                        THEN ev.region_name ELSE PyStr("us-east-1")]

Started == IF pc = "idle" THEN 0 ELSE Len(history) + 1

Init ==
    /\ pc = "idle"
    /\ event = <<>>
    /\ args = NoArgs
    /\ secret_response = NoSecretResponse
    /\ private_key_pem = Unbound
    /\ now = 0
    /\ jwt_payload = NoPayload
    /\ token_request = NoRequest
    /\ token_response = NoResponse
    /\ access_token = Unbound
    /\ dispatch_request = NoRequest
    /\ dispatch_response = NoResponse
    /\ calls = <<>>
    /\ caught = NoExc
    /\ result = NoResult
    /\ outcome = ""
    /\ history = <<>>
    /\ same_inputs = FALSE

\* an except clause of trigger_github_workflow catches e and returns
Catch(e) ==
    /\ pc' = "returned"
    /\ caught' = e
    /\ result' = Returned(ExceptHandler(e).val)
    /\ outcome' = ExceptHandler(e).outcome

\* lines 135-147: a fresh invocation enters lambda_handler with event ev
LambdaHandler(ev) ==
    /\ pc \in {"idle", "returned"}
    /\ Started < MaxInvocations
    /\ event' = ev
    /\ history' = IF pc = "returned" THEN Append(history, calls) ELSE history
    /\ same_inputs' = (pc = "returned" /\ ev = event)
    /\ secret_response' = NoSecretResponse
    /\ private_key_pem' = Unbound
    /\ now' = 0
    /\ jwt_payload' = NoPayload
    /\ token_request' = NoRequest
    /\ token_response' = NoResponse
    /\ access_token' = Unbound
    /\ dispatch_request' = NoRequest
    /\ dispatch_response' = NoResponse
    /\ calls' = <<>>
    /\ caught' = NoExc
    /\ IF FirstMissing(ev, 1) # ""
       THEN /\ pc' = "returned"
            /\ args' = NoArgs
            /\ result' = Raised(Exc("KeyError", "'" \o FirstMissing(ev, 1) \o "'"))
            /\ outcome' = "RAISED"
       ELSE /\ pc' = "START"
            /\ args' = HandlerArgs(ev)
            /\ result' = NoResult
            /\ outcome' = ""

\* line 76: the local as bound when the unwrapping raises; line 84 raises before binding
BoundBeforeUnwrap(resp) ==
    IF "SecretString" \in DOMAIN resp THEN PyStr(RawText(resp.SecretString)) ELSE Unbound

\* lines 71-84: fetch the secret and unwrap the PEM
GetSecretValue(o) ==
    /\ pc = "START"
    /\ calls' = Append(calls, "get_secret_value")
    /\ IF o.kind = "error"
       THEN /\ Catch(o.exc)
            /\ UNCHANGED <<secret_response, private_key_pem>>
       ELSE /\ secret_response' = o.response
            /\ LET pem == UnwrapSecret(o.response)
               IN  IF pem.ok
                   THEN /\ private_key_pem' = pem.val
                        /\ pc' = "secret_fetched"
                        /\ UNCHANGED <<caught, result, outcome>>
                   ELSE /\ Catch(pem.exc)
                        /\ private_key_pem' = BoundBeforeUnwrap(o.response)
    /\ UNCHANGED <<event, args, now, jwt_payload, token_request, token_response,
                   access_token, dispatch_request, dispatch_response, history,
                   same_inputs>>

\* line 87: mint the installation token
MintToken(t, o) ==
    /\ pc = "secret_fetched"
    /\ LET r == GetGithubAppToken(args.app_id, args.installation_id, private_key_pem, t, o)
       IN  /\ now' = t
           /\ jwt_payload' = r.payload
           /\ token_request' = r.request
           /\ token_response' = r.response
           /\ calls' = IF r.request # NoRequest THEN Append(calls, "post_access_tokens")
                       ELSE calls
           /\ IF r.ok
              THEN /\ access_token' = r.val
                   /\ pc' = "token_minted"
                   /\ UNCHANGED <<caught, result, outcome>>
              ELSE /\ Catch(r.exc)
                   /\ UNCHANGED access_token
    /\ UNCHANGED <<event, args, secret_response, private_key_pem, dispatch_request,
                   dispatch_response, history, same_inputs>>

\* the dispatch step with one retry of the POST after a network failure
DispatchWorkflow_RetryOnce(o) ==
    /\ pc = "token_minted"
    /\ dispatch_request' = DispatchRequest(args, access_token)
    /\ calls' = IF o.kind = "error"
                THEN calls \o <<"post_dispatches", "post_dispatches">>
                ELSE Append(calls, "post_dispatches")
    /\ IF o.kind = "error"
       THEN /\ Catch(o.exc)
            /\ UNCHANGED dispatch_response
       ELSE LET response == [status_code |-> o.status_code, reason |-> o.reason,
                             body |-> o.body, url |-> DispatchUrl(args)]
                r == DispatchResult(args, response)
            IN  /\ dispatch_response' = response
                /\ IF r.ok
                   THEN /\ pc' = "returned"
                        /\ result' = Returned(r.val)
                        /\ outcome' = r.outcome
                        /\ UNCHANGED caught
                   ELSE Catch(r.exc)
    /\ UNCHANGED <<event, args, secret_response, private_key_pem, now, jwt_payload,
                   token_request, token_response, access_token, history, same_inputs>>

\* lines 90-118: send the dispatch and turn its response into the result
DispatchWorkflow(o) ==
    /\ pc = "token_minted"
    /\ dispatch_request' = DispatchRequest(args, access_token)
    /\ calls' = Append(calls, "post_dispatches")
    /\ IF o.kind = "error"
       THEN /\ Catch(o.exc)
            /\ UNCHANGED dispatch_response
       ELSE LET response == [status_code |-> o.status_code, reason |-> o.reason,
                             body |-> o.body, url |-> DispatchUrl(args)]
                r == DispatchResult(args, response)
            IN  /\ dispatch_response' = response
                /\ IF r.ok
                   THEN /\ pc' = "returned"
                        /\ result' = Returned(r.val)
                        /\ outcome' = r.outcome
                        /\ UNCHANGED caught
                   ELSE Catch(r.exc)
    /\ UNCHANGED <<event, args, secret_response, private_key_pem, now, jwt_payload,
                   token_request, token_response, access_token, history, same_inputs>>

Next ==
    \/ \E ev \in Events : LambdaHandler(ev)
    \/ \E o \in SecretOutcomes : GetSecretValue(o)
    \/ \E t \in Clock, o \in TokenOutcomes : MintToken(t, o)
    \/ \E o \in DispatchOutcomes : DispatchWorkflow(o)

Spec == Init /\ [][Next]_vars

TypeOK ==
    /\ pc \in {"idle", "START", "secret_fetched", "token_minted", "returned"}
    /\ outcome \in {"", "SUCCESS", "API_FAILURE", "TRANSPORT_FAILURE",
                    "UNEXPECTED_FAILURE", "RAISED"}

(***************************************************************************)
(* Properties                                                              *)
(***************************************************************************)
Chain == <<"get_secret_value", "post_access_tokens", "post_dispatches">>
IsPrefix(a, b) == Len(a) <= Len(b) /\ SubSeq(b, 1, Len(a)) = a
Finished == pc = "returned"
ResultKeys == {"success", "status_code", "message"}

\* the fields of a response body that is a JSON object; no fields for any other body
BodyFields(resp) ==
    LET r == JsonLoads(resp.body)
    IN  IF r.ok /\ r.val.ty = "dict" THEN r.val.v ELSE <<>>
BodyIsEmptyOrObject(resp) ==
    \/ resp.body = <<>>
    \/ JsonLoads(resp.body).ok /\ JsonLoads(resp.body).val.ty = "dict"
ClaimedMessage(resp) ==
    IF "message" \in DOMAIN BodyFields(resp) THEN BodyFields(resp).message
    ELSE PyStr(RawText(resp.body))
ClaimedErrors(resp) ==
    IF "errors" \in DOMAIN BodyFields(resp) THEN BodyFields(resp).errors
    ELSE PyList(<<>>)

\* C1: once trigger_github_workflow was entered, the invocation ends in one of the
\* four terminal outcomes and returns (never raises) a record with success a
\* boolean, status_code an integer and message a string.
C1_ReturnsDispatchResult ==
    (Finished /\ args # NoArgs) =>
        /\ outcome \in {"SUCCESS", "API_FAILURE", "TRANSPORT_FAILURE", "UNEXPECTED_FAILURE"}
        /\ result.kind = "return"
        /\ ResultKeys \subseteq DOMAIN result.value
        /\ result.value.success \in BOOLEAN
        /\ result.value.status_code \in Int
        /\ result.value.message.ty = "str"

\* C2: the result has success=true exactly when the secret was retrieved, the
\* token was minted and the dispatch POST answered 204; then status_code is 204
\* and the message names the workflow file and the ref.  Every other returned
\* result has success=false.
C2_SuccessIff204 ==
    (Finished /\ result.kind = "return") =>
        /\ result.value.success =
              (/\ private_key_pem # Unbound
               /\ access_token # Unbound
               /\ dispatch_response # NoResponse
               /\ dispatch_response.status_code = 204)
        /\ result.value.success =>
              /\ outcome = "SUCCESS"
              /\ result.value =
                    [success |-> TRUE, status_code |-> 204,
                     message |-> PyStr("Workflow '" \o args.workflow_file.v
                                         \o "' triggered successfully on ref '"
                                         \o args.ref.v \o "'")]
C2_Witness ==
    /\ Finished
    /\ result.kind = "return"
    /\ result.value.success
    /\ result.value.message = PyStr("Workflow 'deploy.yml' triggered successfully on ref 'main'")

\* C3: when the token exchange answers with an error status s and raise_for_status
\* raises the HTTP error carrying that response, the result is
\* {success: false, status_code: s, message: str(error)}.
C3_TransportStatusKept ==
    (Finished /\ caught.type = "HTTPError") =>
        result = Returned([success |-> FALSE,
                           status_code |-> token_response.status_code,
                           message |-> PyStr(caught.msg)])

\* C4 as stated: for every dispatch response with a status other than 204 and any
\* body, the result is success=false with the response's status, the body's
\* message (or the raw text) and the body's errors (or an empty list).
C4_Original ==
    (Finished /\ dispatch_response # NoResponse /\ dispatch_response.status_code # 204) =>
        result = Returned([success |-> FALSE,
                           status_code |-> dispatch_response.status_code,
                           message |-> ClaimedMessage(dispatch_response),
                           errors |-> ClaimedErrors(dispatch_response)])

\* C4 amended: that result is returned when the body is empty or a JSON object;
\* any other non-empty body ends in the catch-all result with status 500, the
\* "Unexpected error: " message and no errors key.
C4_ApiFailure ==
    (Finished /\ dispatch_response # NoResponse /\ dispatch_response.status_code # 204) =>
        IF BodyIsEmptyOrObject(dispatch_response)
        THEN /\ outcome = "API_FAILURE"
             /\ result = Returned([success |-> FALSE,
                                   status_code |-> dispatch_response.status_code,
                                   message |-> ClaimedMessage(dispatch_response),
                                   errors |-> ClaimedErrors(dispatch_response)])
        ELSE /\ outcome = "UNEXPECTED_FAILURE"
             /\ caught.type \in {"JSONDecodeError", "AttributeError"}
             /\ result = Returned([success |-> FALSE, status_code |-> 500,
                                   message |-> PyStr("Unexpected error: " \o caught.msg)])
C4_Witness ==
    /\ Finished
    /\ dispatch_response # NoResponse
    /\ dispatch_response.status_code = 404
    /\ result = Returned([success |-> FALSE, status_code |-> 404,
                          message |-> PyStr("Not Found"), errors |-> PyList(<<>>)])

\* C5: a secret-store failure, a signing failure, a network failure of either
\* POST, a token response without error status that lacks 'token' or is not JSON,
\* and an undecodable dispatch body each end in
\* {success: false, status_code: 500, message: "Unexpected error: " + str(e)}
\* with no errors key.
UnexpectedCause ==
    \/ calls = <<"get_secret_value">> /\ secret_response = NoSecretResponse
    \/ jwt_payload # NoPayload /\ token_request = NoRequest
    \/ token_request # NoRequest /\ token_response = NoResponse
    \/ /\ token_response # NoResponse
       /\ ResponseOk(token_response)
       /\ "token" \notin DOMAIN BodyFields(token_response)
    \/ dispatch_request # NoRequest /\ dispatch_response = NoResponse
    \/ /\ dispatch_response # NoResponse
       /\ dispatch_response.status_code # 204
       /\ dispatch_response.body # <<>>
       /\ ~JsonLoads(dispatch_response.body).ok
C5_UnexpectedIs500 ==
    /\ (Finished /\ UnexpectedCause) => (caught # NoExc /\ caught.type # "HTTPError")
    /\ (Finished /\ caught # NoExc /\ caught.type # "HTTPError") =>
          /\ outcome = "UNEXPECTED_FAILURE"
          /\ result = Returned([success |-> FALSE, status_code |-> 500,
                                message |-> PyStr("Unexpected error: " \o caught.msg)])
C5_Witness ==
    /\ Finished
    /\ token_request # NoRequest
    /\ token_response = NoResponse
    /\ caught.type = "ConnectionError"
    /\ result.value.message = PyStr("Unexpected error: Connection aborted.")

\* C6: every secret payload yields a PEM without failing, so that token minting
\* is entered with it: a string payload that is JSON with a 'private_key' field
\* gives that field's value, every other string payload gives the raw string, a
\* binary payload gives its decoding.
C6_SecretAlwaysUnwrapped ==
    (secret_response # NoSecretResponse) =>
        /\ private_key_pem # Unbound
        /\ Finished => jwt_payload # NoPayload
        /\ token_request # NoRequest =>
              PyStr(token_request.Authorization.credentials.key) = private_key_pem
        /\ "SecretString" \in DOMAIN secret_response =>
              private_key_pem =
                 (LET f == [body |-> secret_response.SecretString]
                  IN  IF "private_key" \in DOMAIN BodyFields(f)
                      THEN BodyFields(f).private_key
                      ELSE PyStr(RawText(secret_response.SecretString)))

\* C7: lambda_handler hands the invoker a result record, never a raised
\* exception, for every event, also one that lacks a required field.
C7_HandlerNeverRaises ==
    Finished =>
        /\ result.kind = "return"
        /\ ResultKeys \subseteq DOMAIN result.value

\* C8: the claims set has iat = now - 60, exp = now + 600 and iss = app_id, so
\* exp - iat = 660, and it is the claims set that gets signed.
C8_JwtClaims ==
    (jwt_payload # NoPayload) =>
        /\ jwt_payload.iat = now - 60
        /\ jwt_payload.exp = now + 600
        /\ jwt_payload.exp - jwt_payload.iat = 660
        /\ jwt_payload.iss = args.app_id
        /\ DOMAIN jwt_payload = {"iat", "exp", "iss"}
        /\ token_request # NoRequest =>
              token_request.Authorization.credentials.payload = jwt_payload
C8_Witness ==
    /\ token_request # NoRequest
    /\ now = 1700000000
    /\ jwt_payload = [iat |-> 1699999940, exp |-> 1700000600, iss |-> PyStr("777")]

\* C9: the external calls of an invocation are a prefix of secret fetch, token
\* POST, dispatch POST, each at most once; the token POST needs the secret, the
\* dispatch POST needs the token, and an invocation that got its token sends its
\* own dispatch POST, also when an earlier invocation with the same event did.
C9_CallOrder ==
    /\ IsPrefix(calls, Chain)
    /\ \A i \in 1..Len(history) : IsPrefix(history[i], Chain)
    /\ Len(calls) >= 2 => private_key_pem # Unbound
    /\ Len(calls) >= 3 => access_token # Unbound
    /\ (Finished /\ jwt_payload = NoPayload) => Len(calls) <= 1
    /\ (Finished /\ access_token = Unbound) => Len(calls) <= 2
    /\ (Finished /\ access_token # Unbound) => calls = Chain
C9_Witness ==
    /\ Finished
    /\ same_inputs
    /\ history = <<Chain>>
    /\ calls = Chain

\* C10: the dispatch body holds the caller's ref, holds 'inputs' exactly when
\* workflow_inputs is neither null nor empty, then unchanged, and the bearer of
\* the dispatch POST is the token the token exchange of this invocation returned.
C10_DispatchBody ==
    (dispatch_request # NoRequest) =>
        /\ dispatch_request.json.ty = "dict"
        /\ dispatch_request.json.v.ref = args.ref
        /\ ("inputs" \in DOMAIN dispatch_request.json.v)
              = (args.workflow_inputs \notin {PyNone, EmptyDict})
        /\ "inputs" \in DOMAIN dispatch_request.json.v =>
              dispatch_request.json.v.inputs = args.workflow_inputs
        /\ DOMAIN dispatch_request.json.v \subseteq {"ref", "inputs"}
        /\ access_token = BodyFields(token_response).token
        /\ dispatch_request.Authorization = "Bearer " \o access_token.v
C10_Witness ==
    /\ dispatch_request # NoRequest
    /\ dispatch_request.json = PyDict([ref |-> PyStr("main"),
                                       inputs |-> PyDict([env |-> PyStr("prod")])])
    /\ dispatch_request.Authorization = "Bearer ghs_A"
====
